---- MODULE Spec2Model ----
(***************************************************************************)
(* Model of the mobile scraper: the scrape-and-reconcile pipeline of       *)
(* js/scraper.js (scrapePage and its helpers) driven by the app controller *)
(* (startScraping, scrapePageRange, stopScraping, finishScraping,          *)
(* handleMovieScraped, the pull-to-refresh handler).                       *)
(*                                                                         *)
(* JavaScript strings are sequences of one-character strings, so that the  *)
(* text operations (trim, lower-casing, digit suffixes) are computed.      *)
(* The app is single-threaded: one action is one event-loop task together  *)
(* with the promise continuations it runs, up to the next real suspension  *)
(* (a network call or a timer).                                            *)
(***************************************************************************)
EXTENDS Integers, Sequences, FiniteSets, TLC

\* ------------------------------------------------------------------ bounds

\* FAB taps that start a run
MaxStarts == 2
\* pull-to-refresh gestures
MaxRefresh == 1
\* largest endPage typed into the form (startPage is 1)
MaxPages == 2
\* largest number of cards a listing page answers with
MaxCards == 2
\* starts, refreshes and relay answers of one behaviour, all together (a fetch
\* issued after the last of them stays unanswered)
MaxEvents == 4
\* longest Language value normalizeLanguage is called with, all strings tried
MaxLanguageLen == 4
\* most records in each array getHighestIdNumber is called with
MaxIdRecords == 2

\* ------------------------------------------------------------------ text

Digits == <<"0", "1", "2", "3", "4", "5", "6", "7", "8", "9">>

UpperCase == <<"A", "B", "C", "D", "E", "F", "G", "H", "I", "J", "K", "L", "M",
               "N", "O", "P", "Q", "R", "S", "T", "U", "V", "W", "X", "Y", "Z">>

LowerCase == <<"a", "b", "c", "d", "e", "f", "g", "h", "i", "j", "k", "l", "m",
               "n", "o", "p", "q", "r", "s", "t", "u", "v", "w", "x", "y", "z">>

\* UTF-16 code-unit order of the characters the model uses
Alphabet == <<" ">> \o Digits \o UpperCase \o LowerCase

Chars == {Alphabet[k] : k \in 1..Len(Alphabet)}

CodeTable == [c \in Chars |-> CHOOSE k \in 1..Len(Alphabet) : Alphabet[k] = c]

CharCode(c) == CodeTable[c]

DigitSet == {Digits[k] : k \in 1..10}

IsDigit(c) == c \in DigitSet

DigitVal(c) == CodeTable[c] - 2

IsSpace(c) == c = " "

LowerTable ==
    [c \in Chars |->
        IF \E k \in 1..26 : UpperCase[k] = c
        THEN LowerCase[CHOOSE k \in 1..26 : UpperCase[k] = c]
        ELSE c]

\* String.prototype.toLowerCase, one character
LowerChar(c) == LowerTable[c]

toLowerCase(s) == [k \in 1..Len(s) |-> LowerChar(s[k])]

RECURSIVE TrimStart(_)
TrimStart(s) ==
    IF s # <<>> /\ IsSpace(Head(s)) THEN TrimStart(Tail(s)) ELSE s

RECURSIVE TrimEnd(_)
TrimEnd(s) ==
    IF s # <<>> /\ IsSpace(s[Len(s)]) THEN TrimEnd(SubSeq(s, 1, Len(s) - 1)) ELSE s

\* String.prototype.trim
trim(s) == TrimEnd(TrimStart(s))

\* s.replace(/\s+/g, rep): every run of white space becomes rep
RECURSIVE ReplaceSpaceRuns(_, _)
ReplaceSpaceRuns(s, rep) ==
    IF s = <<>> THEN <<>>
    ELSE IF IsSpace(Head(s))
         THEN rep \o ReplaceSpaceRuns(TrimStart(s), rep)
         ELSE <<Head(s)>> \o ReplaceSpaceRuns(Tail(s), rep)

\* String(n) for a non-negative integer
RECURSIVE ToDigits(_)
ToDigits(k) ==
    IF k < 10 THEN <<Digits[k + 1]>>
    ELSE ToDigits(k \div 10) \o <<Digits[(k % 10) + 1]>>

\* the match of /(\d+)$/: the longest suffix made of digits
RECURSIVE TrailingDigits(_)
TrailingDigits(s) ==
    IF s # <<>> /\ IsDigit(s[Len(s)])
    THEN TrailingDigits(SubSeq(s, 1, Len(s) - 1)) \o <<s[Len(s)]>>
    ELSE <<>>

\* parseInt of a string of digits
RECURSIVE parseInt(_)
parseInt(ds) ==
    IF ds = <<>> THEN 0
    ELSE 10 * parseInt(SubSeq(ds, 1, Len(ds) - 1)) + DigitVal(ds[Len(ds)])

\* the longest prefix made of digits
RECURSIVE LeadingDigits(_)
LeadingDigits(s) ==
    IF s # <<>> /\ IsDigit(Head(s))
    THEN <<Head(s)>> \o LeadingDigits(Tail(s))
    ELSE <<>>

\* ------------------------------------------------------------------ ids

MaxOf(S) == IF S = {} THEN 0 ELSE CHOOSE x \in S : \A y \in S : y <= x

generateId(type, serial) ==
    LET t == IF type = <<>> THEN <<"m", "o", "v", "i", "e">> ELSE type
        cleanType == ReplaceSpaceRuns(trim(toLowerCase(t)), <<>>)
    IN  cleanType \o ToDigits(serial)

\* the number an id contributes to the scan of getHighestIdNumber (0: none)
IdNumber(id) == parseInt(TrailingDigits(id))

\* getHighestIdNumber without the `num > maxId` test: the last number found wins
getHighestIdNumberLastWins(existing, scraped) ==
    LET allData == existing \o scraped
        numbered == {k \in 1..Len(allData) : TrailingDigits(allData[k].id) # <<>>}
    IN  IF numbered = {} THEN 0 ELSE IdNumber(allData[MaxOf(numbered)].id)

getHighestIdNumber(existing, scraped) ==
    LET allData == existing \o scraped
    IN  MaxOf({IdNumber(allData[k].id) : k \in 1..Len(allData)} \cup {0})

\* ------------------------------------------------------------------ records

Str_Movie == <<"M", "o", "v", "i", "e">>

Str_Online == <<"O", "n", "l", "i", "n", "e">>

\* what scrapeMovieDetails extracts from a detail page, before the id is added;
\* the fields findExistingMovie does not read and the run never changes are left out
Detail(title, type, status) ==
    [title |-> title, imageUrl |-> <<"u">>, info2_quality |-> <<"7">>,
     info4_type |-> type, genre |-> <<"g">>, resolution |-> <<"r">>,
     released |-> <<"y">>, cast |-> <<"c">>, storyline |-> <<"t">>,
     language_info |-> <<"l">>, info6_status |-> status]

\* the detail pages the site answers with: one title under three statuses
\* (its case varying), and a second title whose type ends in a digit
DetailPages ==
    { Detail(<<"A", "b">>, Str_Movie, Str_Online),
      Detail(<<"A", "B">>, Str_Movie, <<"S", "0", "1">>),
      Detail(<<"A", "b">>, Str_Movie, <<"S", "0", "2">>),
      Detail(<<"C">>, <<"T", "V", " ", "2">>, Str_Online) }

\* a record object: the extracted fields, its id, and the identity of the object
\* (oid), which tells two references to one object from two equal objects
Record(d, id, oid) ==
    [id |-> id, oid |-> oid,
     title |-> d.title, imageUrl |-> d.imageUrl, info2_quality |-> d.info2_quality,
     info4_type |-> d.info4_type, genre |-> d.genre, resolution |-> d.resolution,
     released |-> d.released, cast |-> d.cast, storyline |-> d.storyline,
     language_info |-> d.language_info, info6_status |-> d.info6_status]

\* scrapeMovieDetails numbering the record one past the serial it was given
scrapeMovieDetailsOnePast(d, serial, oid) ==
    Record(d, generateId(d.info4_type, serial + 1), oid)

\* scrapeMovieDetails on a detail page that was fetched: the record it returns
scrapeMovieDetails(d, serial, oid) ==
    Record(d, generateId(d.info4_type, serial), oid)

\* ------------------------------------------------------------------ cards

\* URLs of links are sequences of parts: an origin ("http..."), then the path
\* the origin of a URL that has one, <<>> for a URL that does not parse
Origin(url) == IF url # <<>> /\ url[1] = "http://site" THEN <<url[1]>> ELSE <<>>

\* relativeUrl.startsWith('http')
StartsWithHttp(url) == Origin(url) # <<>>

\* resolveUrl(baseUrl, relativeUrl): '' for no link, an absolute link as it is, a
\* path on the origin of the base, the link as it is when the base does not parse
resolveUrl(baseUrl, relativeUrl) ==
    IF relativeUrl = <<>> THEN <<>>
    ELSE IF StartsWithHttp(relativeUrl) THEN relativeUrl
         ELSE IF Origin(baseUrl) # <<>> THEN Origin(baseUrl) \o relativeUrl
              ELSE relativeUrl

\* the text between a "[" and the next "]" matches \s*S\d+[^\]]*Added\s*
IsSeasonNote(inner) ==
    LET t == trim(inner)
        n == Len(t)
    IN  /\ n >= 7
        /\ t[1] \in {"S", "s"} /\ IsDigit(t[2])
        /\ t[n - 4] \in {"A", "a"} /\ t[n - 3] \in {"D", "d"} /\ t[n - 2] \in {"D", "d"}
        /\ t[n - 1] \in {"E", "e"} /\ t[n] \in {"D", "d"}

\* title.replace(/\[\s*S\d+[^\]]*Added\s*\]/gi, ''), from position k on
RECURSIVE RemoveSeasonNotes(_, _)
RemoveSeasonNotes(s, k) ==
    IF k > Len(s) THEN <<>>
    ELSE LET closing == {j \in (k + 1)..Len(s) : s[j] = "]"}
             j == IF closing = {} THEN 0
                  ELSE CHOOSE x \in closing : \A y \in closing : x <= y
         IN  IF s[k] = "[" /\ j # 0 /\ IsSeasonNote(SubSeq(s, k + 1, j - 1))
             THEN RemoveSeasonNotes(s, j + 1)
             ELSE <<s[k]>> \o RemoveSeasonNotes(s, k + 1)

cleanMovieTitle(title) ==
    IF title = <<>> THEN <<>>
    ELSE ReplaceSpaceRuns(trim(RemoveSeasonNotes(title, 1)), <<" ">>)

\* parseMovieCard that gives up the link of a card without title
parseMovieCardNeedingTitle(card, baseUrl) ==
    LET href == resolveUrl(baseUrl, card.href)
        listTitle == cleanMovieTitle(card.alt)
    IN  IF href # <<>> /\ listTitle # <<>>
        THEN [href |-> href, title |-> listTitle]
        ELSE [href |-> <<>>, title |-> listTitle]

\* parseMovieCard on a card element, of which the model keeps the href of the
\* link in its image container and the alt text of its image: the link and the
\* title it returns
parseMovieCard(card, baseUrl) ==
    LET href == resolveUrl(baseUrl, card.href)
        listTitle == cleanMovieTitle(card.alt)
    IN  IF href # <<>> \/ listTitle # <<>>
        THEN [href |-> href, title |-> listTitle]
        ELSE [href |-> <<>>, title |-> listTitle]

\* the card elements of the listings: without link, with a path, with an
\* absolute link; without title, with one, with one that holds an episode note
\* or is nothing but an episode note
Cards ==
    {[href |-> h, alt |-> t] :
        h \in {<<>>, <<"/m/1">>, <<"http://site", "/m/1">>},
        t \in {<<>>, <<"A", " ", "b">>,
               <<"[", "S", "0", "1", " ", "A", "d", "d", "e", "d", "]">>,
               <<"A", " ", " ", "[", "s", "1", " ", "E", "p", " ", "a", "d", "d", "e", "d", " ", "]">>}}

\* the base a listing's links are resolved against
ListingBase == <<"http://site", "/page/1">>

\* `if (href)` in the card loop: the card has a link to fetch
HasLink(card) == parseMovieCard(card, ListingBase).href # <<>>

\* the cards of the listings that have a link to fetch (TRUE), that have none (FALSE)
CardsByLink == [linked \in BOOLEAN |-> {card \in Cards : HasLink(card) = linked}]

\* what `if (href)` is for the cards of the listings
LinkFlags == {linked \in BOOLEAN : CardsByLink[linked] # {}}

\* ------------------------------------------------------------------ duplicate detection

clean(str) == toLowerCase(ReplaceSpaceRuns(trim(str), <<" ">>))

\* the capture of /S(\d+)/i in a status, <<>> for null
RECURSIVE extractSeason(_)
extractSeason(status) ==
    IF Len(status) < 2 THEN <<>>
    ELSE IF LowerChar(status[1]) = "s" /\ IsDigit(status[2])
         THEN LeadingDigits(Tail(status))
         ELSE extractSeason(Tail(status))

\* basicMatch that forgets the storyline
basicMatchWithoutStoryline(item, movie) ==
    /\ clean(item.title) = clean(movie.title)
    /\ clean(item.imageUrl) = clean(movie.imageUrl)
    /\ clean(item.info2_quality) = clean(movie.info2_quality)
    /\ clean(item.info4_type) = clean(movie.info4_type)
    /\ clean(item.genre) = clean(movie.genre)
    /\ clean(item.resolution) = clean(movie.resolution)
    /\ clean(item.released) = clean(movie.released)
    /\ clean(item.cast) = clean(movie.cast)
    /\ clean(item.language_info) = clean(movie.language_info)

basicMatch(item, movie) ==
    /\ clean(item.title) = clean(movie.title)
    /\ clean(item.imageUrl) = clean(movie.imageUrl)
    /\ clean(item.info2_quality) = clean(movie.info2_quality)
    /\ clean(item.info4_type) = clean(movie.info4_type)
    /\ clean(item.genre) = clean(movie.genre)
    /\ clean(item.resolution) = clean(movie.resolution)
    /\ clean(item.released) = clean(movie.released)
    /\ clean(item.cast) = clean(movie.cast)
    /\ clean(item.storyline) = clean(movie.storyline)
    /\ clean(item.language_info) = clean(movie.language_info)

\* the find callback with the season rule applied when one side has no marker
IsSameMovieStrictSeason(item, movie) ==
    /\ basicMatch(item, movie)
    /\ extractSeason(item.info6_status) = extractSeason(movie.info6_status)

\* the predicate of the find callback
IsSameMovie(item, movie) ==
    LET itemSeason == extractSeason(item.info6_status)
        movieSeason == extractSeason(movie.info6_status)
    IN  /\ basicMatch(item, movie)
        /\ ~(itemSeason # <<>> /\ movieSeason # <<>> /\ itemSeason # movieSeason)

\* findExistingMovie that gives up at the first record the season rule excludes
findExistingMovieNoSkip(movie, existing, scraped) ==
    LET allData == existing \o scraped
        near == {k \in 1..Len(allData) : basicMatch(allData[k], movie)}
    IN  IF near = {} THEN 0
        ELSE LET k == CHOOSE j \in near : \A m \in near : j <= m
             IN  IF IsSameMovie(allData[k], movie) THEN k ELSE 0

\* the index in existingData \o scrapedData of the record Array.find returns, 0 for undefined
findExistingMovie(movie, existing, scraped) ==
    LET allData == existing \o scraped
        hits == {k \in 1..Len(allData) : IsSameMovie(allData[k], movie)}
    IN  IF hits = {} THEN 0 ELSE CHOOSE k \in hits : \A j \in hits : k <= j

\* ------------------------------------------------------------------ storage

\* order of two IndexedDB string keys
RECURSIVE IdLess(_, _)
IdLess(a, b) ==
    IF b = <<>> THEN FALSE
    ELSE IF a = <<>> THEN TRUE
    ELSE IF Head(a) = Head(b) THEN IdLess(Tail(a), Tail(b))
    ELSE CharCode(Head(a)) < CharCode(Head(b))

\* objectStore.put of one record into the store (keyPath id, kept in key order):
\* a structured clone, so the stored record is no object of the page (oid 0)
put(store, movie) ==
    LET m == [movie EXCEPT !.oid = 0]
        same == {k \in 1..Len(store) : store[k].id = m.id}
        before == {k \in 1..Len(store) : IdLess(store[k].id, m.id)}
    IN  IF same # {}
        THEN [k \in 1..Len(store) |-> IF k \in same THEN m ELSE store[k]]
        ELSE SubSeq(store, 1, Cardinality(before)) \o <<m>>
             \o SubSeq(store, Cardinality(before) + 1, Len(store))

RECURSIVE saveMovies(_, _)
saveMovies(store, movies) ==
    IF movies = <<>> THEN store
    ELSE saveMovies(put(store, Head(movies)), Tail(movies))

\* objectStore.getAll: fresh objects, numbered from oid on
loadMovies(store, oid) ==
    [k \in 1..Len(store) |-> [store[k] EXCEPT !.oid = oid + k - 1]]

\* the store the device holds when the app is opened: one record of an earlier run
InitialStores ==
    { <<Record(Detail(<<"A", "b">>, Str_Movie, Str_Online), <<"m", "o", "v", "i", "e", "1">>, 0)>> }

\* the arrays the JSON URL of the form may answer with (any other answer, an
\* HTTP error or a value that is no array, makes importJSON throw)
JsonArrays ==
    { <<>>,
      <<Record(Detail(<<"C">>, <<"T", "V", " ", "2">>, Str_Online), <<"t", "v", "2", "9">>, 0)>> }

\* ------------------------------------------------------------------ state

VARIABLES
    isRunning,        \* state.isRunning
    shouldStop,       \* state.shouldStop
    existingData,     \* state.existingData: the array it refers to now
    scrapedData,      \* state.scrapedData: the array it refers to now
    newScrapedData,   \* state.newScrapedData: the array it refers to now
    db,               \* the scrapedMovies object store
    nextOid,          \* identity of the next object created
    loops,            \* the pending activations of startScraping, by slot
    ret,              \* the scrapePage call that returned in the last step, if one did
    starts,           \* runs started so far
    refreshes,        \* pull-to-refresh gestures so far
    relayAnswers,     \* fetches the relay has answered so far
    call              \* a function of the scraper called on its own: arguments, result

vars == <<isRunning, shouldStop, existingData, scrapedData, newScrapedData,
          db, nextOid, loops, ret, starts, refreshes, relayAnswers, call>>

\* every run started may still be pending: one slot for each
Slots == 1..MaxStarts

\* state.settings.autoSave: the default, which no handler of the app changes
autoSave == TRUE

\* positions inside a pending scrapePage call
InPage == {"listing", "detail", "delay"}

\* A slot holds the locals of one activation: of startScraping (jsonUrl),
\* scrapePageRange (pages, pageIdx) and the scrapePage call it awaits
\* (existingData, scrapedData and newScrapedData as captured at the call, serial, the
\* number n of cards, the index i). A captured array that state.* still refers to is
\* "live"; once state.* is assigned another array the captured one only keeps what
\* it held (nothing pushes to it any more). trace is what the pending scrapePage
\* call has done so far, in order: its progress events ("info:...", "warning:...",
\* "success:...", "error:..."), its item callbacks ("item:..."), the fetches it
\* issued ("fetch:...") and each entry into the body of the card loop ("card").
\* stopAt is where the call was (pc, i) when stopScraping first ran during it.
\* visited and failedPages count the scrapePage calls of the activation.
\* details are the detail pages the relay has served the pending scrapePage call.
\* made are the records the activation's scrapePage calls have handed to the item
\* callback as new.
IdleLoop ==
    [pc |-> "idle", jsonUrl |-> FALSE, pages |-> <<>>, pageIdx |-> 0,
     lExisting |-> <<>>, scrapedLive |-> FALSE, scrapedSnap |-> <<>>,
     newLive |-> FALSE, newSnapLen |-> 0, serial |-> 0, n |-> 0, i |-> 0,
     trace |-> <<>>, stopAt |-> <<>>, visited |-> 0, failedPages |-> 0,
     details |-> <<>>, made |-> <<>>]

\* the scrapedData array a scrapePage call reads
Scraped(l) == IF l.scrapedLive THEN scrapedData ELSE l.scrapedSnap

\* newScrapedData.length as a scrapePage call reads it
NewLen(l) == IF l.newLive THEN Len(newScrapedData) ELSE l.newSnapLen

\* no function is being called on its own
NoCall == [fn |-> "none"]

\* what the user and the relay have done so far
Events == starts + refreshes + relayAnswers

Init ==
    /\ isRunning = FALSE
    /\ shouldStop = FALSE
    /\ db \in InitialStores
    /\ existingData = loadMovies(db, 1)
    /\ scrapedData = existingData
    /\ newScrapedData = <<>>
    /\ nextOid = Len(db) + 1
    /\ loops = [r \in Slots |-> IdleLoop]
    /\ ret = <<>>
    /\ starts = 0
    /\ refreshes = 0
    /\ relayAnswers = 0
    /\ call = NoCall

\* ------------------------------------------------------------------ the run

\* the pages array scrapePageRange builds
PagesOf(startPage, endPage, direction) ==
    IF direction = "start-to-end"
    THEN [k \in 1..(endPage - startPage + 1) |-> startPage + k - 1]
    ELSE [k \in 1..(endPage - startPage + 1) |-> endPage - k + 1]

\* the callbacks and requests of a scrapePage call, appended in the order made
Emit(l, events) == [l EXCEPT !.trace = @ \o events]

\* scrapePage is called for the next page: it captures the three arrays, reports
\* "Scraping page ..." and suspends on the listing fetch
StartPage(l, existing) ==
    [l EXCEPT !.pc = "listing", !.pageIdx = @ + 1,
              !.lExisting = existing, !.scrapedLive = TRUE, !.scrapedSnap = <<>>,
              !.newLive = TRUE, !.newSnapLen = 0, !.serial = 0, !.n = 0, !.i = 0,
              !.trace = <<"info:scraping", "fetch:listing">>, !.stopAt = <<>>,
              !.visited = @ + 1, !.details = <<>>]

\* the head of `for (const pageNum of pages)`: stop, go on with the next page, or
\* fall out of the loop into finishScraping, which ends the activation
NextPage(l, existing) ==
    IF l.pageIdx < Len(l.pages) /\ ~shouldStop
    THEN StartPage(l, existing)
    ELSE IdleLoop

\* a step of an activation: the locals it leaves, and the scrapePage call that
\* returned during the step (none: <<>>)
Goes(l) == [loop |-> l, ret |-> <<>>]

\* scrapePage returns (normally, or 0 from its catch) and scrapePageRange goes on
PageReturns(r, l, existing) ==
    LET nxt == NextPage(l, existing)
    IN  [loop |-> nxt,
         ret |-> <<[slot |-> r, page |-> l, finished |-> (nxt.pc = "idle")]>>]

\* `if (shouldStop())` is true at the head of the card loop: report and break
StopSeen(l) == Emit(l, <<"warning:stop">>)

\* CardLoop without the `break`: the stop is reported and the loop goes on
CardLoopNoBreak(r, l, href, existing) ==
    IF l.i < l.n
    THEN LET m == IF shouldStop THEN StopSeen(l) ELSE l
         IN  IF href
             THEN Goes(Emit([m EXCEPT !.pc = "detail"], <<"card", "fetch:detail">>))
             ELSE Goes(Emit([m EXCEPT !.pc = "delay"], <<"card">>))
    ELSE PageReturns(r, l, existing)

\* CardLoop without the `await` on the detail fetch: the next card's fetch is
\* issued while the first is in flight
CardLoopFanOut(r, l, href, existing) ==
    IF l.i < l.n
    THEN IF shouldStop
         THEN PageReturns(r, StopSeen(l), existing)
         ELSE IF href
              THEN IF l.i + 1 < l.n
                   THEN Goes(Emit([l EXCEPT !.pc = "detail", !.i = @ + 1],
                                  <<"card", "fetch:detail", "card", "fetch:detail">>))
                   ELSE Goes(Emit([l EXCEPT !.pc = "detail"], <<"card", "fetch:detail">>))
              ELSE Goes(Emit([l EXCEPT !.pc = "delay"], <<"card">>))
    ELSE PageReturns(r, l, existing)

\* `setTimeout(resolve, 500)`: the delay of the timer a scrapePage call waits on
InterCardDelay == 500

\* the timer a scrapePage call has pending: its delay, 0 for none
Timer(l) == IF l.pc = "delay" THEN InterCardDelay ELSE 0

\* CardLoop that goes straight on to the next card when a card has no link
CardLoopNoDelayWithoutLink(r, l, href, existing) ==
    IF l.i < l.n
    THEN IF shouldStop
         THEN PageReturns(r, StopSeen(l), existing)
         ELSE IF href
              THEN Goes(Emit([l EXCEPT !.pc = "detail"], <<"card", "fetch:detail">>))
              ELSE IF l.i + 1 < l.n
                   THEN Goes(Emit([l EXCEPT !.pc = "detail", !.i = @ + 1],
                                  <<"card", "card", "fetch:detail">>))
                   ELSE PageReturns(r, Emit(l, <<"card">>), existing)
    ELSE PageReturns(r, l, existing)

\* the head of the card loop at index l.i; href tells whether parseMovieCard finds
\* a detail link in that card
CardLoop(r, l, href, existing) ==
    IF l.i < l.n
    THEN IF shouldStop
         THEN PageReturns(r, StopSeen(l), existing)
         ELSE IF href
              THEN Goes(Emit([l EXCEPT !.pc = "detail"], <<"card", "fetch:detail">>))
              ELSE Goes(Emit([l EXCEPT !.pc = "delay"], <<"card">>))
    ELSE PageReturns(r, l, existing)

\* the serial computed without the records scraped so far in the run
PageSerialIgnoringRun(l) == getHighestIdNumber(l.lExisting, Scraped(l)) + 1

\* `let serial = getHighestIdNumber(existingData, scrapedData) + newScrapedData.length + 1`
PageSerial(l) == getHighestIdNumber(l.lExisting, Scraped(l)) + NewLen(l) + 1

\* ListingFailed with the error thrown on to scrapePageRange, which ends the range
ListingFailedEndsRun(l) ==
    Emit([l EXCEPT !.failedPages = @ + 1, !.pageIdx = Len(l.pages)], <<"error:page">>)

\* the listing fetch failed: the catch of scrapePage reports it and returns 0
ListingFailed(l) ==
    Emit([l EXCEPT !.failedPages = @ + 1], <<"error:page">>)

\* ListingParsed that reports an empty listing as a failure of the page
ListingParsedEmptyIsError(l, n) ==
    Emit([l EXCEPT !.n = n, !.i = 0, !.serial = PageSerial(l)],
         IF n = 0 THEN <<"error:page">> ELSE <<"info:found">>)

\* the listing arrived with n cards: the warning for none, "Found n cards", the serial
ListingParsed(l, n) ==
    Emit([l EXCEPT !.n = n, !.i = 0, !.serial = PageSerial(l)],
         IF n = 0 THEN <<"warning:nocards", "info:found">> ELSE <<"info:found">>)

\* CardFailed with the serial advanced although no record was created
CardFailedAdvancing(l) ==
    Emit([l EXCEPT !.pc = "delay", !.serial = @ + 1], <<"error:card">>)

\* the catch around one card: report the failure, nothing else
CardFailed(l) == Emit([l EXCEPT !.pc = "delay"], <<"error:card">>)

\* CardMatched that reports every match as an update
CardMatchedAlwaysUpdated(l, isUpdated) ==
    Emit([l EXCEPT !.pc = "delay"], <<"info:updated", "item:updated">>)

\* a record in allData matched: "Updated status" or "Skipped duplicate", then the
\* item callback with isDuplicate
CardMatched(l, isUpdated) ==
    Emit([l EXCEPT !.pc = "delay"],
         IF isUpdated THEN <<"info:updated", "item:updated">>
                      ELSE <<"warning:duplicate", "item:duplicate">>)

\* CardNew that invokes the item callback a second time after the progress event
CardNewCalledTwice(l) ==
    Emit([l EXCEPT !.pc = "delay", !.serial = @ + 1],
         <<"item:new", "success:scraped", "item:new">>)

\* no record matched: the item callback with the new record, "Scraped: ...", serial++
CardNew(l) ==
    Emit([l EXCEPT !.pc = "delay", !.serial = @ + 1], <<"item:new", "success:scraped">>)

\* the update done by taking the record out and appending the restated one
SetStatusReappending(arr, oid, status) ==
    LET rest == {k \in 1..Len(arr) : arr[k].oid # oid}
        Keep[k \in 0..Len(arr)] ==
            IF k = 0 THEN <<>>
            ELSE IF k \in rest THEN Append(Keep[k - 1], arr[k]) ELSE Keep[k - 1]
        Took[k \in 0..Len(arr)] ==
            IF k = 0 THEN <<>>
            ELSE IF k \in rest THEN Took[k - 1]
                 ELSE Append(Took[k - 1], [arr[k] EXCEPT !.info6_status = status])
    IN  Keep[Len(arr)] \o Took[Len(arr)]

\* `existingMovie.info6_status = ...` as seen through an array that may hold the object
SetStatus(arr, oid, status) ==
    [k \in 1..Len(arr) |->
        IF arr[k].oid = oid THEN [arr[k] EXCEPT !.info6_status = status] ELSE arr[k]]

\* state.* is assigned another array: a scrapePage call that captured the old one
\* keeps reading the old one
Detach(l, dropScraped, dropNew) ==
    IF l.pc \in InPage
    THEN [l EXCEPT
            !.scrapedSnap = IF dropScraped /\ l.scrapedLive THEN scrapedData ELSE @,
            !.scrapedLive = IF dropScraped THEN FALSE ELSE @,
            !.newSnapLen = IF dropNew /\ l.newLive THEN Len(newScrapedData) ELSE @,
            !.newLive = IF dropNew THEN FALSE ELSE @]
    ELSE l

\* stopScraping runs while a scrapePage call is pending
StopNoted(l) ==
    IF l.pc \in InPage /\ l.stopAt = <<>>
    THEN [l EXCEPT !.stopAt = <<[pc |-> l.pc, i |-> l.i]>>]
    ELSE l

\* finishScraping, when the activation ended in this step
FinishEffects(l) ==
    /\ isRunning' = IF l.pc = "idle" THEN FALSE ELSE isRunning
    /\ db' = IF l.pc = "idle" /\ autoSave /\ Len(newScrapedData) > 0
             THEN saveMovies(db, newScrapedData)
             ELSE db

\* ------------------------------------------------------------------ actions

\* handleFABClick while no run is marked running: startScraping up to its first await
StartScraping(r, jsonUrl, endPage, direction) ==
    /\ ~isRunning
    /\ starts < MaxStarts
    /\ Events < MaxEvents
    /\ loops[r].pc = "idle"
    /\ \A q \in Slots : q < r => loops[q].pc # "idle"
    /\ isRunning' = TRUE
    /\ shouldStop' = FALSE
    /\ newScrapedData' = <<>>
    /\ loops' = [q \in Slots |->
                    IF q = r
                    THEN [IdleLoop EXCEPT !.pc = "perm", !.jsonUrl = jsonUrl,
                                          !.pages = PagesOf(1, endPage, direction)]
                    ELSE Detach(loops[q], FALSE, TRUE)]
    /\ ret' = <<>>
    /\ starts' = starts + 1
    /\ UNCHANGED <<existingData, scrapedData, db, nextOid, refreshes, relayAnswers, call>>

\* stopScraping that also abandons the card whose detail fetch is in flight
StopScrapingAborting ==
    /\ isRunning
    /\ shouldStop' = TRUE
    /\ isRunning' = FALSE
    /\ loops' = [q \in Slots |->
                    IF loops[q].pc = "detail"
                    THEN [StopNoted(loops[q]) EXCEPT !.pc = "delay"]
                    ELSE StopNoted(loops[q])]
    /\ ret' = <<>>
    /\ UNCHANGED <<existingData, scrapedData, newScrapedData, db, nextOid,
                   starts, refreshes, relayAnswers, call>>

\* handleFABClick while a run is marked running: stopScraping
StopScraping ==
    /\ isRunning
    /\ shouldStop' = TRUE
    /\ isRunning' = FALSE
    /\ loops' = [q \in Slots |-> StopNoted(loops[q])]
    /\ ret' = <<>>
    /\ UNCHANGED <<existingData, scrapedData, newScrapedData, db, nextOid,
                   starts, refreshes, relayAnswers, call>>

\* Notifications.requestPermission settles: the import is requested, or the page
\* range begins
PermissionDone(r) ==
    LET l == loops[r]
        l2 == IF l.jsonUrl THEN [l EXCEPT !.pc = "import"] ELSE NextPage(l, existingData)
    IN  /\ l.pc = "perm"
        /\ loops' = [loops EXCEPT ![r] = l2]
        /\ ret' = <<>>
        /\ FinishEffects(l2)
        /\ UNCHANGED <<shouldStop, existingData, scrapedData, newScrapedData,
                       nextOid, starts, refreshes, relayAnswers, call>>

\* ImportLoaded that adds the imported records to the data the app holds
ImportLoadedMerging(r, json) ==
    LET l == loops[r]
        fresh == existingData \o loadMovies(json, nextOid)
        l2 == NextPage(l, fresh)
    IN  /\ l.pc = "import"
        /\ existingData' = fresh
        /\ scrapedData' = fresh
        /\ nextOid' = nextOid + Len(json)
        /\ loops' = [q \in Slots |->
                        IF q = r THEN l2 ELSE Detach(loops[q], TRUE, FALSE)]
        /\ ret' = <<>>
        /\ FinishEffects(l2)
        /\ UNCHANGED <<shouldStop, newScrapedData, starts, refreshes, relayAnswers, call>>

\* Storage.importJSON settles with an array: it replaces existingData and scrapedData
ImportLoaded(r, json) ==
    LET l == loops[r]
        fresh == loadMovies(json, nextOid)
        l2 == NextPage(l, fresh)
    IN  /\ l.pc = "import"
        /\ existingData' = fresh
        /\ scrapedData' = fresh
        /\ nextOid' = nextOid + Len(json)
        /\ loops' = [q \in Slots |->
                        IF q = r THEN l2 ELSE Detach(loops[q], TRUE, FALSE)]
        /\ ret' = <<>>
        /\ FinishEffects(l2)
        /\ UNCHANGED <<shouldStop, newScrapedData, starts, refreshes, relayAnswers, call>>

\* Storage.importJSON throws: a toast, and the run goes on with the data it had
ImportFailed(r) ==
    LET l == loops[r]
        l2 == NextPage(l, existingData)
    IN  /\ l.pc = "import"
        /\ loops' = [loops EXCEPT ![r] = l2]
        /\ ret' = <<>>
        /\ FinishEffects(l2)
        /\ UNCHANGED <<shouldStop, existingData, scrapedData, newScrapedData,
                       nextOid, starts, refreshes, relayAnswers, call>>

\* the pull-to-refresh callback, from the moment loadMovies has answered
PullToRefresh ==
    LET fresh == loadMovies(db, nextOid)
    IN  /\ refreshes < MaxRefresh
        /\ Events < MaxEvents
        /\ existingData' = fresh
        /\ scrapedData' = fresh
        /\ nextOid' = nextOid + Len(db)
        /\ loops' = [q \in Slots |-> Detach(loops[q], TRUE, FALSE)]
        /\ ret' = <<>>
        /\ refreshes' = refreshes + 1
        /\ UNCHANGED <<isRunning, shouldStop, newScrapedData, db, starts, relayAnswers, call>>

\* the relay answers the listing fetch with a failure
ListingError(r) ==
    LET l == loops[r]
        out == PageReturns(r, ListingFailed(l), existingData)
    IN  /\ l.pc = "listing"
        /\ Events < MaxEvents
        /\ relayAnswers' = relayAnswers + 1
        /\ loops' = [loops EXCEPT ![r] = out.loop]
        /\ ret' = out.ret
        /\ FinishEffects(out.loop)
        /\ UNCHANGED <<shouldStop, existingData, scrapedData, newScrapedData,
                       nextOid, starts, refreshes, call>>

\* the relay answers the listing fetch with a page of n cards
ListingOk(r, n, href) ==
    LET l == loops[r]
        out == CardLoop(r, ListingParsed(l, n), href, existingData)
    IN  /\ l.pc = "listing"
        /\ Events < MaxEvents
        /\ relayAnswers' = relayAnswers + 1
        /\ loops' = [loops EXCEPT ![r] = out.loop]
        /\ ret' = out.ret
        /\ FinishEffects(out.loop)
        /\ UNCHANGED <<shouldStop, existingData, scrapedData, newScrapedData,
                       nextOid, starts, refreshes, call>>

\* the relay answers the detail fetch of the current card with a failure
DetailError(r) ==
    /\ loops[r].pc = "detail"
    /\ Events < MaxEvents
    /\ relayAnswers' = relayAnswers + 1
    /\ loops' = [loops EXCEPT ![r] = CardFailed(loops[r])]
    /\ ret' = <<>>
    /\ UNCHANGED <<isRunning, shouldStop, existingData, scrapedData, newScrapedData,
                   db, nextOid, starts, refreshes, call>>

\* the relay answers the detail fetch with page d: extraction, reconciliation, callbacks
DetailOk(r, d) ==
    LET l == [loops[r] EXCEPT !.details = Append(@, d)]
        movieData == scrapeMovieDetails(d, l.serial, nextOid)
        allData == l.lExisting \o Scraped(l)
        found == findExistingMovie(movieData, l.lExisting, Scraped(l))
    IN  /\ l.pc = "detail"
        /\ Events < MaxEvents
        /\ relayAnswers' = relayAnswers + 1
        /\ IF found # 0
           THEN LET existingMovie == allData[found]
                    status == movieData.info6_status
                    isUpdated == existingMovie.info6_status # status
                    Upd(arr) == IF isUpdated
                                THEN SetStatus(arr, existingMovie.oid, status)
                                ELSE arr
                IN  /\ existingData' = Upd(existingData)
                    /\ scrapedData' = Upd(scrapedData)
                    /\ newScrapedData' = Upd(newScrapedData)
                    /\ loops' = [q \in Slots |->
                                    LET m == [(IF q = r THEN l ELSE loops[q]) EXCEPT
                                                !.lExisting = Upd(@),
                                                !.scrapedSnap = Upd(@),
                                                !.made = Upd(@)]
                                    IN  IF q = r THEN CardMatched(m, isUpdated) ELSE m]
                    /\ nextOid' = nextOid
           ELSE /\ newScrapedData' = Append(newScrapedData, movieData)
                /\ scrapedData' = Append(scrapedData, movieData)
                /\ loops' = [loops EXCEPT
                                ![r] = CardNew([l EXCEPT !.made = Append(@, movieData)])]
                /\ nextOid' = nextOid + 1
                /\ existingData' = existingData
        /\ ret' = <<>>
        /\ UNCHANGED <<isRunning, shouldStop, db, starts, refreshes, call>>

\* the 500 ms timer after a card fires: i++ and the head of the card loop
DelayDone(r, href) ==
    LET l == loops[r]
        out == CardLoop(r, [l EXCEPT !.i = @ + 1], href, existingData)
    IN  /\ l.pc = "delay"
        /\ loops' = [loops EXCEPT ![r] = out.loop]
        /\ ret' = out.ret
        /\ FinishEffects(out.loop)
        /\ UNCHANGED <<shouldStop, existingData, scrapedData, newScrapedData,
                       nextOid, starts, refreshes, relayAnswers, call>>

\* the value of the scrapingDirection field: the run is started with its default
Directions == {"start-to-end"}

\* the value of the endPage field
EndPages == {MaxPages}

Next ==
    \/ \E r \in Slots, j \in BOOLEAN, e \in EndPages, dir \in Directions :
           StartScraping(r, j, e, dir)
    \/ StopScraping
    \/ \E r \in Slots : PermissionDone(r)
    \/ \E r \in Slots, json \in JsonArrays : ImportLoaded(r, json)
    \/ \E r \in Slots : ImportFailed(r)
    \/ PullToRefresh
    \/ \E r \in Slots : ListingError(r)
    \/ \E r \in Slots, n \in 0..MaxCards, href \in LinkFlags : ListingOk(r, n, href)
    \/ \E r \in Slots : DetailError(r)
    \/ \E r \in Slots, d \in DetailPages : DetailOk(r, d)
    \/ \E r \in Slots, href \in LinkFlags : DelayDone(r, href)

Spec == Init /\ [][Next]_vars

\* setTimeout fires: the only step of a run the code itself schedules. Whether the
\* relay, the JSON host or the permission prompt ever answers is up to them.
FairSpec == Spec /\ \A r \in Slots : WF_vars(\E href \in BOOLEAN : DelayDone(r, href))

\* ------------------------------------------------------------------ functions called on their own

\* the ten fields findExistingMovie compares
MatchFields ==
    {"title", "imageUrl", "info2_quality", "info4_type", "genre", "resolution",
     "released", "cast", "storyline", "language_info"}

\* statuses of detail pages and of stored records
Statuses == {Str_Online, <<"S", "0", "1">>, <<"S", "0", "2">>, <<"E", "p", " ", "s", "1">>}

\* the candidate record of the calls: two words in its title, an id of the run
Candidate(status) ==
    scrapeMovieDetails(Detail(<<"A", " ", "b">>, Str_Movie, status), 7, 1)

\* the same text as a site or a JSON file may spell it: other case, more white space
Respelled(v) == <<" ">> \o toLowerCase(ReplaceSpaceRuns(v, <<" ", " ">>)) \o <<" ">>

\* a stored record that agrees with the candidate except, at most, in one match
\* field, which is respelled or holds another text; its id is of an earlier run
StoredRecords ==
    LET base(status) ==
            Record(Detail(<<"A", " ", "b">>, Str_Movie, status), <<"m", "o", "v", "i", "e", "1">>, 2)
    IN  {base(st) : st \in Statuses}
        \cup {[base(st) EXCEPT ![f] = Respelled(@)] : f \in MatchFields, st \in Statuses}
        \cup {[base(st) EXCEPT ![f] = @ \o <<"x">>] : f \in MatchFields, st \in Statuses}

\* datasets of up to two records: the candidate's entity under several statuses
\* and another entity, numbered from oid on
SmallPool ==
    {Detail(<<"A", " ", "b">>, Str_Movie, Str_Online),
     Detail(<<"A", " ", "b">>, Str_Movie, <<"S", "0", "1">>),
     Detail(<<"a", " ", "B">>, Str_Movie, <<"S", "0", "2">>),
     Detail(<<"C">>, Str_Movie, Str_Online)}

SmallDatasets(oid) ==
    {<<>>}
    \cup {<<Record(d, generateId(d.info4_type, oid), oid)>> : d \in SmallPool}
    \cup {<<Record(d, generateId(d.info4_type, oid), oid),
            Record(e, generateId(e.info4_type, oid + 1), oid + 1)>> : d \in SmallPool, e \in SmallPool}

\* the calls of findExistingMovie
FindCalls ==
    {[fn |-> "findExistingMovie", movie |-> Candidate(st), existingData |-> <<s>>,
      scrapedData |-> <<>>, done |-> FALSE, result |-> 0] :
        st \in Statuses, s \in StoredRecords}
    \cup {[fn |-> "findExistingMovie", movie |-> Candidate(st), existingData |-> e,
           scrapedData |-> s, done |-> FALSE, result |-> 0] :
            st \in {Str_Online, <<"S", "0", "1">>}, e \in SmallDatasets(2), s \in SmallDatasets(4)}

\* --- the relay and fetchPageContent

\* the URLs a page is asked for and the URL the relay lands on after redirects
TargetUrls == {"https://site/page/1", "https://site/moved/1"}

\* the JSON body of the relays on a fetch that went through
RelaySuccess(html, finalUrl, status) ==
    [success |-> TRUE, html |-> html, finalUrl |-> finalUrl, status |-> status]

\* the JSON body of the relays when their own fetch threw
RelayFailure(error) == [success |-> FALSE, error |-> error]

\* the JSON body of the express relay on a request without a url
RelayUrlRequired == [error |-> "URL is required"]

\* an HTTP response: its status and its body, <<data>> when the body is the JSON
\* text of data, <<>> when it is no JSON
HttpResponse(status, body) == [status |-> status, body |-> body]

\* what fetch(proxyUrl, ...) settles with: a response, or a rejection (no
\* connection, CORS) with its reason
Fulfilled(response) == [response |-> <<response>>, reason |-> ""]

Rejected(reason) == [response |-> <<>>, reason |-> reason]

\* the answers of a relay: the two relays of the repository, and intermediaries
\* in front of them that answer 501 or 404, with or without a JSON body
RelayOutcomes ==
    {Fulfilled(HttpResponse(200, <<RelaySuccess("<html>", u, s)>>)) :
        u \in TargetUrls, s \in {200, 404}}
    \cup {Fulfilled(HttpResponse(s, <<RelayFailure(e)>>)) :
            s \in {500, 501}, e \in {"fetch failed", ""}}
    \cup {Fulfilled(HttpResponse(s, <<[success |-> FALSE]>>)) : s \in {500, 501}}
    \cup {Fulfilled(HttpResponse(400, <<RelayUrlRequired>>))}
    \cup {Fulfilled(HttpResponse(s, <<>>)) : s \in {404, 501}}
    \cup {Rejected("Failed to fetch")}

\* obj[name] of JavaScript: <<value>>, <<>> for undefined
Property(obj, name) == IF name \in DOMAIN obj THEN <<obj[name]>> ELSE <<>>

\* an async function settles: it throws an error, or returns {html, finalUrl}
Throws(message) == [threw |-> TRUE, message |-> message, html |-> <<>>, finalUrl |-> <<>>]

Returns(html, finalUrl) ==
    [threw |-> FALSE, message |-> "", html |-> html, finalUrl |-> finalUrl]

\* the message of the error response.json() rejects with
JsonSyntaxError == "Unexpected token < in JSON"

ProxyNotResponding ==
    "Server Error (501): The proxy is not responding. Please ensure the proxy server is running."

\* fetchPageContent that keeps the relay's text whatever the HTTP status
fetchPageContentKeepingText(url, outcome) ==
    IF outcome.response = <<>> THEN Throws(outcome.reason)
    ELSE LET response == outcome.response[1]
         IN  IF response.body = <<>> THEN Throws(JsonSyntaxError)
             ELSE LET data == response.body[1]
                  IN  IF ~("success" \in DOMAIN data /\ data.success)
                      THEN Throws(IF "error" \in DOMAIN data /\ data.error # ""
                                  THEN data.error ELSE "Failed to fetch page")
                      ELSE Returns(Property(data, "html"), Property(data, "url"))

\* fetchPageContent(url, proxyUrl), the POST to the relay settling with outcome
fetchPageContent(url, outcome) ==
    IF outcome.response = <<>> THEN Throws(outcome.reason)
    ELSE LET response == outcome.response[1]
         IN  IF response.body = <<>> THEN Throws(JsonSyntaxError)
             ELSE LET data == response.body[1]
                  IN  IF ~("success" \in DOMAIN data /\ data.success)
                      THEN LET errorMsg == IF "error" \in DOMAIN data /\ data.error # ""
                                           THEN data.error ELSE "Failed to fetch page"
                           IN  Throws(IF response.status = 501 THEN ProxyNotResponding
                                                               ELSE errorMsg)
                      ELSE Returns(Property(data, "html"), Property(data, "url"))

\* `const baseUrl = finalUrl || pageUrl`: what the links of a fetched page are
\* resolved against
BaseUrl(result, pageUrl) ==
    IF result.finalUrl # <<>> /\ result.finalUrl[1] # "" THEN result.finalUrl[1]
    ELSE pageUrl

\* the calls of fetchPageContent
FetchCalls ==
    {[fn |-> "fetchPageContent", url |-> u, outcome |-> o, done |-> FALSE,
      result |-> Returns(<<>>, <<>>)] : u \in TargetUrls, o \in RelayOutcomes}

\* --- normalizeLanguage

\* \w of a regular expression
IsWordChar(c) == c = "_" \/ (c \in Chars /\ c # " ")

\* /\bDual\b/i matches at position k of s
DualAt(s, k) ==
    /\ k + 3 <= Len(s)
    /\ s[k] \in {"D", "d"} /\ s[k + 1] \in {"U", "u"}
    /\ s[k + 2] \in {"A", "a"} /\ s[k + 3] \in {"L", "l"}
    /\ (k = 1 \/ ~IsWordChar(s[k - 1]))
    /\ (k + 3 = Len(s) \/ ~IsWordChar(s[k + 4]))

\* language.replace(/\bDual\b/gi, 'Dual Audio'), from position k on
RECURSIVE ReplaceDual(_, _)
ReplaceDual(s, k) ==
    IF k > Len(s) THEN <<>>
    ELSE IF DualAt(s, k)
         THEN <<"D", "u", "a", "l", " ", "A", "u", "d", "i", "o">> \o ReplaceDual(s, k + 4)
         ELSE <<s[k]>> \o ReplaceDual(s, k + 1)

\* the en dash (U+2013), one character of a string
EnDash == "U+2013"

\* language.replace(/[\[\]\u2013]/g, ','): the brackets and the en dash
ReplaceBrackets(s) ==
    [k \in 1..Len(s) |-> IF s[k] \in {"[", "]", EnDash} THEN "," ELSE s[k]]

\* language.replace(/,+/g, ',')
RECURSIVE CollapseCommas(_)
CollapseCommas(s) ==
    IF Len(s) < 2 THEN s
    ELSE IF s[1] = "," /\ s[2] = "," THEN CollapseCommas(Tail(s))
         ELSE <<s[1]>> \o CollapseCommas(Tail(s))

\* language.replace(/^,|,$/g, ''): the first character of the string when it is
\* a comma, and the last one when it is a comma
StripEdgeCommas(s) ==
    LET a == IF s # <<>> /\ s[1] = "," THEN Tail(s) ELSE s
    IN  IF a # <<>> /\ a[Len(a)] = "," THEN SubSeq(a, 1, Len(a) - 1) ELSE a

\* normalizeLanguage whose commas are stripped after the white space is trimmed
normalizeLanguageTrimmingFirst(language) ==
    IF language = <<>> THEN <<>>
    ELSE StripEdgeCommas(trim(StripEdgeCommas(trim(
             CollapseCommas(ReplaceBrackets(ReplaceDual(language, 1)))))))

normalizeLanguage(language) ==
    IF language = <<>> THEN <<>>
    ELSE trim(StripEdgeCommas(CollapseCommas(ReplaceBrackets(ReplaceDual(language, 1)))))

\* the characters of the Language values the calls are made with
LanguageChars == {" ", ",", "[", "]", EnDash, "a"}

\* the strings over LanguageChars of length n
RECURSIVE LanguageTexts(_)
LanguageTexts(n) ==
    IF n = 0 THEN {<<>>}
    ELSE {<<c>> \o t : c \in LanguageChars, t \in LanguageTexts(n - 1)}

\* the calls of normalizeLanguage: every string of up to MaxLanguageLen
\* characters, and values that hold the word Dual
LanguageCalls ==
    {[fn |-> "normalizeLanguage", language |-> t, done |-> FALSE, result |-> <<>>] :
        t \in UNION {LanguageTexts(n) : n \in 0..MaxLanguageLen}
              \cup { <<"D", "u", "a", "l">>, <<"[", "d", "U", "A", "L", "]">>,
                     <<"D", "u", "a", "l", "s">>, <<"a", " ", "D", "u", "a", "l", " ">> }}

\* --- getHighestIdNumber

\* the ids of the records the calls are made with: ids of two runs, an id whose
\* number has two digits, ids without a number, and '' for a record without id
SampleIds ==
    { <<"m", "o", "v", "i", "e", "5">>, <<"m", "o", "v", "i", "e", "9">>,
      <<"t", "v", "1", "0">>, <<"m", "o", "v", "i", "e">>, <<"7", "a">>, <<>> }

\* the arrays of up to MaxIdRecords records over SampleIds
RECURSIVE IdArrays(_)
IdArrays(n) ==
    IF n = 0 THEN {<<>>}
    ELSE IdArrays(n - 1)
         \cup {Append(a, [id |-> i]) : a \in IdArrays(n - 1), i \in SampleIds}

\* the calls of getHighestIdNumber
IdCalls ==
    {[fn |-> "getHighestIdNumber", existingData |-> e, scrapedData |-> s,
      done |-> FALSE, result |-> 0] : e \in IdArrays(MaxIdRecords), s \in IdArrays(MaxIdRecords)}

\* --- the Cloudflare worker

\* the User-Agent header the relays send to the target
MobileUserAgent ==
    "Mozilla/5.0 (iPhone; CPU iPhone OS 14_0 like Mac OS X) AppleWebKit/605.1.15 (KHTML, like Gecko) Version/14.0 Mobile/15E148 Safari/604.1"

UrlRequiredText == "URL is required. Use GET ?url=... or POST {\"url\": \"...\"}"

\* the requests the worker receives: a method, the url parameter of the query
\* (<<>>: none) and the body (<<data>> when it is the JSON text of data, <<>>
\* when there is none or it is no JSON)
WorkerRequests ==
    {[method |-> m, query |-> q, body |-> b] :
        m \in {"GET", "POST", "OPTIONS"},
        q \in {<<>>} \cup {<<u>> : u \in TargetUrls},
        b \in {<<>>, <<[other |-> "x"]>>} \cup {<<[url |-> u]>> : u \in TargetUrls}}

\* what the worker's fetch of the target settles with
TargetOutcomes ==
    {Fulfilled([status |-> s, url |-> u, text |-> "<html>"]) :
        s \in {200, 404}, u \in TargetUrls}
    \cup {Rejected("fetch failed")}

\* a Response of the worker: status, the names of its headers, JSON body (<<>>: null)
WorkerResponse(status, headers, body) ==
    [status |-> status, headers |-> headers, body |-> body]

\* what a call of the worker does: the request it sends to the target (<<>>:
\* none) and the response it returns
Answers(outbound, response) == [outbound |-> outbound, response |-> response]

PreflightHeaders ==
    {"Access-Control-Allow-Origin", "Access-Control-Allow-Methods",
     "Access-Control-Allow-Headers", "Access-Control-Max-Age"}

\* worker.js, `export default { async fetch(request, env, ctx) }`, its fetch of
\* the target settling with target
fetch(request, target) ==
    LET fromBody == IF request.method = "POST" /\ request.body # <<>>
                    THEN Property(request.body[1], "url")
                    ELSE <<>>
        targetUrl == IF request.query # <<>> THEN request.query ELSE fromBody
    IN  IF targetUrl = <<>>
        THEN Answers(<<>>, WorkerResponse(400,
                               {"Content-Type", "Access-Control-Allow-Origin"},
                               <<RelayFailure(UrlRequiredText)>>))
        ELSE IF request.method = "OPTIONS"
             THEN Answers(<<>>, WorkerResponse(200, PreflightHeaders, <<>>))
             ELSE LET outbound == [url |-> targetUrl[1], method |-> request.method,
                                   userAgent |-> MobileUserAgent, redirect |-> "follow"]
                  IN  IF target.response = <<>>
                      THEN Answers(<<outbound>>, WorkerResponse(500,
                                       {"Content-Type", "Access-Control-Allow-Origin"},
                                       <<RelayFailure(target.reason)>>))
                      ELSE Answers(<<outbound>>, WorkerResponse(200,
                                       {"Content-Type", "Access-Control-Allow-Origin",
                                        "Access-Control-Allow-Methods"},
                                       <<RelaySuccess(target.response[1].text,
                                                      target.response[1].url,
                                                      target.response[1].status)>>))

\* the calls of the worker
WorkerCalls ==
    {[fn |-> "worker.fetch", request |-> q, target |-> t, done |-> FALSE,
      result |-> Answers(<<>>, WorkerResponse(0, {}, <<>>))] :
        q \in WorkerRequests, t \in TargetOutcomes}

\* the app as initApp leaves it, and one function about to be called
CallInit ==
    /\ isRunning = FALSE
    /\ shouldStop = FALSE
    /\ db \in InitialStores
    /\ existingData = loadMovies(db, 1)
    /\ scrapedData = existingData
    /\ newScrapedData = <<>>
    /\ nextOid = Len(db) + 1
    /\ loops = [r \in Slots |-> IdleLoop]
    /\ ret = <<>>
    /\ starts = 0
    /\ refreshes = 0
    /\ relayAnswers = 0
    /\ call \in FindCalls \cup FetchCalls \cup LanguageCalls \cup IdCalls
                \cup WorkerCalls

AppUnchanged ==
    UNCHANGED <<isRunning, shouldStop, existingData, scrapedData, newScrapedData,
                db, nextOid, loops, ret, starts, refreshes, relayAnswers>>

\* findExistingMovie(movie, existingData, scrapedData) is evaluated
FindExistingMovieCalled ==
    /\ call.fn = "findExistingMovie"
    /\ ~call.done
    /\ call' = [call EXCEPT !.done = TRUE,
                            !.result = findExistingMovie(call.movie, call.existingData,
                                                         call.scrapedData)]
    /\ AppUnchanged

\* fetchPageContent(url, proxyUrl) is called and the relay call settles
FetchPageContentCalled ==
    /\ call.fn = "fetchPageContent"
    /\ ~call.done
    /\ call' = [call EXCEPT !.done = TRUE,
                            !.result = fetchPageContent(call.url, call.outcome)]
    /\ AppUnchanged

\* normalizeLanguage(language) is evaluated
NormalizeLanguageCalled ==
    /\ call.fn = "normalizeLanguage"
    /\ ~call.done
    /\ call' = [call EXCEPT !.done = TRUE, !.result = normalizeLanguage(call.language)]
    /\ AppUnchanged

\* getHighestIdNumber(existingData, scrapedData) is evaluated
GetHighestIdNumberCalled ==
    /\ call.fn = "getHighestIdNumber"
    /\ ~call.done
    /\ call' = [call EXCEPT !.done = TRUE,
                            !.result = getHighestIdNumber(call.existingData, call.scrapedData)]
    /\ AppUnchanged

\* the worker handles a request
WorkerFetchCalled ==
    /\ call.fn = "worker.fetch"
    /\ ~call.done
    /\ call' = [call EXCEPT !.done = TRUE, !.result = fetch(call.request, call.target)]
    /\ AppUnchanged

CallNext ==
    \/ FindExistingMovieCalled
    \/ FetchPageContentCalled
    \/ NormalizeLanguageCalled
    \/ GetHighestIdNumberCalled
    \/ WorkerFetchCalled

CallSpec == CallInit /\ [][CallNext]_vars

\* ------------------------------------------------------------------ reading a trace

Items == {"item:new", "item:updated", "item:duplicate"}

\* what ends a card that had a detail link
Outcomes == Items \cup {"error:card"}

Fetches == {"fetch:listing", "fetch:detail"}

\* what ends a fetch: the listing parsed or failed, the card reconciled or failed
Settlements == Outcomes \cup {"info:found", "error:page"}

Count(t, S) == Cardinality({k \in 1..Len(t) : t[k] \in S})

Last(t) == IF t = <<>> THEN "" ELSE t[Len(t)]

\* the scrapePage calls that are pending, and the one that has just returned
PendingPages == {loops[r] : r \in {q \in Slots : loops[q].pc \in InPage}}

ReturnedPages == {ret[k].page : k \in 1..Len(ret)}

AllPages == PendingPages \cup ReturnedPages

\* the records of the working dataset: the existing ones and those of the run
WorkingDataset == existingData \o scrapedData \o newScrapedData

\* ------------------------------------------------------------------ claims

\* C1: starting from a dataset with unique ids, no two records of the working
\* dataset (the existing records and those of the run) have the same id.
C1_UniqueIds ==
    \A a \in 1..Len(WorkingDataset), b \in 1..Len(WorkingDataset) :
        WorkingDataset[a].id = WorkingDataset[b].id
            => WorkingDataset[a].oid = WorkingDataset[b].oid

\* C2: every record scrapePage creates gets an id whose trailing digits are a
\* number strictly greater than the greatest such number among the ids of
\* existingData and of the records already scraped in the run.
C2_FreshSuffix ==
    [][Len(newScrapedData') = Len(newScrapedData) + 1
        => IdNumber(newScrapedData'[Len(newScrapedData')].id)
               > getHighestIdNumber(existingData, newScrapedData)]_vars

\* C3: once scrapePage has seen the stop flag at the head of the card loop it
\* starts no further detail fetch and invokes no further item callback: the
\* "stop requested" event is the last thing the call does, and a call that halts
\* at the second card has fetched and delivered the first card only.
C3_HaltsAtStopCheck ==
    /\ \A p \in PendingPages : Count(p.trace, {"warning:stop"}) = 0
    /\ \A p \in ReturnedPages :
          /\ \A k \in 1..Len(p.trace) : p.trace[k] = "warning:stop" => k = Len(p.trace)
          /\ (Last(p.trace) = "warning:stop" /\ p.i = 1)
                => /\ Count(p.trace, {"card"}) = 1
                   /\ Count(p.trace, {"fetch:detail"}) <= 1
                   /\ Count(p.trace, Items) <= 1

\* C3, its case: the stop is seen after the first of two cards, and the item
\* callback has run exactly once.
C3_Witness ==
    \E p \in ReturnedPages :
        /\ p.n = 2 /\ p.i = 1
        /\ Last(p.trace) = "warning:stop"
        /\ Count(p.trace, Items) = 1

\* the part of a trace that belongs to the card of index k
CardSegment(t, k) ==
    LET cards == {j \in 1..Len(t) : t[j] = "card"}
        from == {j \in cards : Cardinality({m \in cards : m < j}) = k}
        later == {j \in cards : Cardinality({m \in cards : m < j}) = k + 1}
    IN  IF from = {} THEN <<>>
        ELSE LET a == CHOOSE j \in from : TRUE
                 b == IF later = {} THEN Len(t) ELSE (CHOOSE j \in later : TRUE) - 1
             IN  SubSeq(t, a, b)

\* the card during whose detail fetch stopScraping ran is over
StoppedCardOver(p) ==
    /\ p.stopAt # <<>>
    /\ p.stopAt[1].pc = "detail"
    /\ ~(p.pc = "detail" /\ p.i = p.stopAt[1].i)

\* C4: a stop that arrives while the detail fetch of a card is in flight does
\* not abort the card: the card ends with its outcome (the item callback, or the
\* error event), and the "stop requested" event comes after it.
C4_InFlightCardCompletes ==
    \A p \in AllPages :
        StoppedCardOver(p)
            => LET seg == CardSegment(p.trace, p.stopAt[1].i)
               IN  /\ Len(seg) >= 3
                   /\ seg[1] = "card" /\ seg[2] = "fetch:detail"
                   /\ Count(seg, Outcomes) = 1
                   /\ \A k \in 1..Len(seg) : seg[k] = "warning:stop" => k = Len(seg)

\* C4, its case: the stop arrived during the first card's fetch, the card was
\* delivered to the item callback, and the loop halted at the next check.
C4_Witness ==
    \E p \in ReturnedPages :
        /\ StoppedCardOver(p)
        /\ p.stopAt[1].i = 0
        /\ Count(p.trace, Items) = 1
        /\ Last(p.trace) = "warning:stop"

\* C5: whenever a stop is requested while scrapePage is processing a page, the
\* call reports the "stop requested" event before it returns.
C5_StopReported ==
    \A p \in ReturnedPages :
        p.stopAt # <<>> => Count(p.trace, {"warning:stop"}) > 0

\* C6: when the detail fetch or the extraction of a card fails, scrapePage
\* reports one error event for the card, invokes no item callback for it, leaves
\* the serial and the datasets as they were, and waits out the delay; after the
\* delay it goes on with the next card of the page.
C6_CardFailureIsLocal ==
    [][\A r \in Slots :
          LET l == loops[r]
              l2 == loops'[r]
          IN  /\ DetailError(r)
                  => /\ l2.trace = Append(l.trace, "error:card")
                     /\ l2.serial = l.serial
                     /\ l2.i = l.i /\ l2.n = l.n
                     /\ l2.pc = "delay"
                     /\ ret' = <<>>
                     /\ <<existingData, scrapedData, newScrapedData>>'
                            = <<existingData, scrapedData, newScrapedData>>
              /\ (/\ \E href \in BOOLEAN : DelayDone(r, href)
                  /\ Last(l.trace) = "error:card"
                  /\ l.i + 1 < l.n /\ ~shouldStop)
                  => /\ l2.i = l.i + 1
                     /\ l2.pc \in {"detail", "delay"}
                     /\ SubSeq(l2.trace, 1, Len(l.trace) + 1) = Append(l.trace, "card")
                     /\ ret' = <<>>]_vars

\* C6, its case: the first card failed, nothing was delivered for it, and the
\* second card's detail fetch has been issued.
C6_Witness ==
    \E p \in PendingPages :
        /\ p.pc = "detail" /\ p.i = 1
        /\ CardSegment(p.trace, 0) = <<"card", "fetch:detail", "error:card">>
        /\ CardSegment(p.trace, 1) = <<"card", "fetch:detail">>

\* C7: when the listing fetch of a page fails, scrapePage reports an error event
\* and returns without having entered the card loop, and scrapePageRange goes on
\* with the next page of the range; the run ends there only if that was the last
\* page or a stop was requested.
C7_PageFailureIsLocal ==
    [][\A r \in Slots :
          ListingError(r)
              => LET l == loops[r]
                     l2 == loops'[r]
                 IN  /\ Len(ret') = 1
                     /\ ret'[1].slot = r
                     /\ ret'[1].page.trace = Append(l.trace, "error:page")
                     /\ Count(ret'[1].page.trace, {"card"} \cup Items) = 0
                     /\ IF l.pageIdx < Len(l.pages) /\ ~shouldStop
                        THEN /\ l2.pc = "listing"
                             /\ l2.pageIdx = l.pageIdx + 1
                             /\ l2.pages = l.pages
                             /\ ~ret'[1].finished
                             /\ isRunning' = isRunning
                        ELSE /\ l2.pc = "idle"
                             /\ ret'[1].finished]_vars

\* C7, its case: the first page failed and the listing of the second is fetched.
C7_Witness ==
    \E p \in PendingPages :
        /\ p.pc = "listing"
        /\ p.pageIdx = 2
        /\ p.failedPages = 1

\* C8: a relay call that never answers does not block the run for ever: every
\* pending scrapePage call returns (or the behaviour has used up the events the
\* model allows, so that a call left pending is one the relay could still answer).
C8_PageReturns ==
    \A r \in Slots :
        (loops[r].pc \in InPage)
            ~> ((ret # <<>> /\ ret[1].slot = r) \/ Events = MaxEvents)

\* C9: within a run the cards are processed in listing order, one at a time: a
\* detail fetch is issued only when every earlier fetch of the page has been
\* settled and its card's outcome emitted, so at most one relay request of the
\* run is in flight.
C9_OneAtATime ==
    \A p \in AllPages :
        LET t == p.trace
        IN  /\ Count(t, Fetches) - Count(t, Settlements)
                   = IF p \in PendingPages /\ p.pc \in {"listing", "detail"} THEN 1 ELSE 0
            /\ \A k \in 1..Len(t) :
                  t[k] \in Fetches
                      => Count(SubSeq(t, 1, k - 1), Fetches)
                             = Count(SubSeq(t, 1, k - 1), Settlements)
            /\ (p \in PendingPages /\ p.pc \in {"detail", "delay"})
                  => Count(t, {"card"}) = p.i + 1

\* C9, its case: the second card's detail fetch is in flight, the first card
\* having been reconciled.
C9_Witness ==
    \E p \in PendingPages :
        /\ p.pc = "detail" /\ p.i = 1
        /\ Count(CardSegment(p.trace, 0), Items) = 1
        /\ Count(p.trace, Fetches) = 3

\* C10: while a scrapePage call is pending, the arrays it reconciles against are
\* the ones the app's state refers to: no handler has replaced the existing data,
\* the working dataset or the list of new records under it.
C10_ExclusiveOwnership ==
    \A p \in PendingPages :
        /\ p.lExisting = existingData
        /\ p.scrapedLive
        /\ p.newLive

\* a text as the comparison reads it: trimmed, white space collapsed, lower case
Normalised(v) == toLowerCase(ReplaceSpaceRuns(trim(v), <<" ">>))

\* the digits of the first S<digits> marker of a status, <<>> when it has none
SeasonMarker(status) ==
    LET at == {k \in 1..(Len(status) - 1) :
                  status[k] \in {"S", "s"} /\ IsDigit(status[k + 1])}
    IN  IF at = {} THEN <<>>
        ELSE LET k == CHOOSE j \in at : \A m \in at : j <= m
             IN  LeadingDigits(SubSeq(status, k + 1, Len(status)))

SeasonsDiffer(a, b) ==
    /\ SeasonMarker(a) # <<>>
    /\ SeasonMarker(b) # <<>>
    /\ SeasonMarker(a) # SeasonMarker(b)

SameFields(a, b) == \A f \in MatchFields : Normalised(a[f]) = Normalised(b[f])

\* a finished call of findExistingMovie against one stored record
OneStored ==
    /\ call.fn = "findExistingMovie" /\ call.done
    /\ Len(call.existingData) = 1 /\ call.scrapedData = <<>>

\* C11: findExistingMovie takes the candidate and a stored record for the same
\* entity only if the ten match fields are equal once trimmed, white space
\* collapsed and lower-cased; records equal in those fields match whatever their
\* statuses and their other fields (the id), unless both statuses carry season
\* markers that differ.
C11_MatchFields ==
    OneStored
        => LET stored == call.existingData[1]
           IN  /\ call.result # 0 => SameFields(stored, call.movie)
               /\ (SameFields(stored, call.movie)
                   /\ ~SeasonsDiffer(stored.info6_status, call.movie.info6_status))
                      => call.result = 1

\* C11, its case: a stored record spelled differently in a match field, with
\* another status and another id, is found.
C11_Witness ==
    /\ OneStored
    /\ call.result = 1
    /\ \E f \in MatchFields : call.existingData[1][f] # call.movie[f]
    /\ call.existingData[1].info6_status # call.movie.info6_status
    /\ call.existingData[1].id # call.movie.id

\* C12: records equal in all match fields are different entities exactly when
\* both statuses carry an S<digits> marker and the markers differ; with a marker
\* on one side only, on neither side, or the same on both, they are one entity.
C12_SeasonRule ==
    (OneStored /\ SameFields(call.existingData[1], call.movie))
        => (call.result = 0
               <=> SeasonsDiffer(call.existingData[1].info6_status, call.movie.info6_status))

\* C12, its case: the stored record is of season 1, the candidate of season 2,
\* and the stored record is not found.
C12_Witness ==
    /\ OneStored
    /\ SameFields(call.existingData[1], call.movie)
    /\ call.existingData[1].info6_status = <<"S", "0", "1">>
    /\ call.movie.info6_status = <<"S", "0", "2">>
    /\ call.result = 0

\* the stored record is the candidate's entity
SameEntity(stored, movie) ==
    /\ SameFields(stored, movie)
    /\ ~SeasonsDiffer(stored.info6_status, movie.info6_status)

\* C13: of the records that match the candidate, findExistingMovie returns the
\* first one of existingData followed by the in-run dataset, each in its order;
\* a record the season rule excludes is passed over and the scan goes on.
C13_FirstMatch ==
    (call.fn = "findExistingMovie" /\ call.done)
        => LET all == call.existingData \o call.scrapedData
               hits == {k \in 1..Len(all) : SameEntity(all[k], call.movie)}
           IN  /\ call.result = 0 <=> hits = {}
               /\ call.result # 0
                     => /\ call.result \in hits
                        /\ \A k \in hits : call.result <= k

\* C13, its case: the first existing record is of another season, the second
\* matches, the in-run dataset holds a match too, and the second existing
\* record is returned.
C13_Witness ==
    /\ call.fn = "findExistingMovie" /\ call.done
    /\ Len(call.existingData) = 2
    /\ SameFields(call.existingData[1], call.movie)
    /\ ~SameEntity(call.existingData[1], call.movie)
    /\ \E k \in 1..Len(call.scrapedData) : SameEntity(call.scrapedData[k], call.movie)
    /\ call.result = 2

\* what a card's reconciliation added to the trace of its scrapePage call
Added(r) == SubSeq(loops'[r].trace, Len(loops[r].trace) + 1, Len(loops'[r].trace))

\* C14: the outcome of reconciling a candidate is duplicate iff a record of the
\* existing data followed by the in-run data matches it and the (first) match
\* has the candidate's status, updated iff it matches and the status differs,
\* and new iff no record matches: new against empty datasets, and new when the
\* field-equal records carry another season marker.
C14_Outcomes ==
    [][\A r \in Slots, d \in DetailPages :
          DetailOk(r, d)
              => LET all == loops[r].lExisting \o Scraped(loops[r])
                     hits == {k \in 1..Len(all) : SameEntity(all[k], d)}
                     first == CHOOSE k \in hits : \A j \in hits : k <= j
                     got == {Added(r)[k] : k \in 1..Len(Added(r))} \cap Items
                 IN  /\ Cardinality(got) = 1
                     /\ "item:duplicate" \in got
                           <=> (hits # {} /\ all[first].info6_status = d.info6_status)
                     /\ "item:updated" \in got
                           <=> (hits # {} /\ all[first].info6_status # d.info6_status)
                     /\ "item:new" \in got <=> hits = {}]_vars

\* C14, its case: with the stored record at season 1 and the candidate, equal in
\* the match fields, at season 2, the candidate has become a new record.
C14_Witness ==
    \E p \in PendingPages :
        /\ p.scrapedLive /\ p.lExisting = existingData
        /\ Last(p.trace) = "success:scraped"
        /\ newScrapedData # <<>>
        /\ \E k \in 1..Len(existingData) :
              /\ SameFields(existingData[k], newScrapedData[Len(newScrapedData)])
              /\ SeasonsDiffer(existingData[k].info6_status,
                               newScrapedData[Len(newScrapedData)].info6_status)

\* a step of some scrapePage call: an answer to one of its fetches, or its timer
ScrapePageStep(r) ==
    \/ ListingError(r)
    \/ \E n \in 0..MaxCards, href \in BOOLEAN : ListingOk(r, n, href)
    \/ DetailError(r)
    \/ \E d \in DetailPages : DetailOk(r, d)
    \/ \E href \in BOOLEAN : DelayDone(r, href)

\* array `after` holds the records of `before`, in their places, none changed
\* in anything but the status
KeptButStatus(before, after) ==
    /\ Len(after) >= Len(before)
    /\ \A k \in 1..Len(before) :
          [after[k] EXCEPT !.info6_status = before[k].info6_status] = before[k]

\* the objects whose status differs between the two arrays
Restated(before, after) ==
    {before[k].oid : k \in {j \in 1..Len(before) : after[j] # before[j]}}

\* C15: an updated outcome changes the status of the matched record and nothing
\* else; a duplicate outcome changes nothing; and no step of scrapePage removes
\* or moves a record of the existing or of the in-run dataset.
C15_Frame ==
    [][\A r \in Slots :
          ScrapePageStep(r)
              => LET got == {Added(r)[k] : k \in 1..Len(Added(r))} \cap Items
                     changed == Restated(existingData, existingData')
                                    \cup Restated(scrapedData, scrapedData')
                                    \cup Restated(newScrapedData, newScrapedData')
                 IN  /\ KeptButStatus(existingData, existingData')
                     /\ KeptButStatus(scrapedData, scrapedData')
                     /\ KeptButStatus(newScrapedData, newScrapedData')
                     /\ Len(existingData') = Len(existingData)
                     /\ "item:updated" \in got
                           => /\ Cardinality(changed) <= 1
                              /\ Len(scrapedData') = Len(scrapedData)
                              /\ Len(newScrapedData') = Len(newScrapedData)
                     /\ "item:updated" \notin got => changed = {}
                     /\ "item:new" \notin got
                           => /\ Len(scrapedData') = Len(scrapedData)
                              /\ Len(newScrapedData') = Len(newScrapedData)]_vars

\* C15, its case: a card has updated the stored record, which now differs from
\* the stored copy in its status and in nothing else.
C15_Witness ==
    \E p \in PendingPages :
        /\ Last(p.trace) = "item:updated"
        /\ Len(existingData) = 1 /\ Len(db) = 1
        /\ existingData[1].info6_status # db[1].info6_status
        /\ [existingData[1] EXCEPT !.info6_status = db[1].info6_status, !.oid = 0] = db[1]

TraceAfter(r) ==
    IF ret' # <<>> /\ ret'[1].slot = r THEN ret'[1].page.trace ELSE loops'[r].trace

\* what the step added to it
Grown(r) == SubSeq(TraceAfter(r), Len(loops[r].trace) + 1, Len(TraceAfter(r)))

\* C17: after every card of the page loop, whatever its outcome, the call waits
\* on the 500 ms timer, and only the timer's firing brings the stop check and
\* the detail fetch of the next card: no two cards are entered, and no two
\* detail fetches issued, without the delay between them.
C17_DelayBetweenCards ==
    [][\A r \in Slots :
          LET l == loops[r]
              l2 == loops'[r]
          IN  /\ (l.pc = "detail" /\ ScrapePageStep(r))
                  => (l2.pc = "delay" /\ Timer(l2) = 500)
              /\ (l.pc \in InPage /\ Grown(r) # <<>> /\ Last(Grown(r)) = "card")
                  => (l2.pc = "delay" /\ Timer(l2) = 500)
              /\ (l.pc \in InPage /\ Count(l.trace, {"card"}) >= 1
                  /\ Count(Grown(r), {"card", "fetch:detail", "warning:stop"}) > 0)
                  => /\ Timer(l) = 500
                     /\ \E href \in BOOLEAN : DelayDone(r, href)
              /\ l.pc \in InPage
                  => /\ Count(Grown(r), {"card"}) <= 1
                     /\ Count(Grown(r), {"fetch:detail"}) <= 1]_vars

\* C17, its case: the first card had no link, the timer has fired, and the
\* second card's detail fetch is issued.
C17_Witness ==
    \E p \in PendingPages :
        /\ p.pc = "detail" /\ p.i = 1
        /\ CardSegment(p.trace, 0) = <<"card">>
        /\ CardSegment(p.trace, 1) = <<"card", "fetch:detail">>

\* what the progress callback was invoked with (every entry of a trace that is
\* neither a card entered, a fetch issued, nor an invocation of the item callback)
ProgressEntries ==
    {"info:scraping", "info:found", "info:updated", "success:scraped",
     "warning:nocards", "warning:duplicate", "warning:stop", "error:card", "error:page"}

\* the dataset a store is loaded into when the app opens
Opened(store) == loadMovies(store, 1)

\* the scrapePage call p is the first of the only run, made on the dataset the
\* app opened with (no import), and nothing else has happened since but its
\* listing and its two detail pages being served
FirstCallAlone(p) ==
    /\ starts = 1 /\ refreshes = 0 /\ relayAnswers = 3
    /\ ~p.jsonUrl /\ p.visited = 1
    /\ p.n = 2 /\ Len(p.details) = 2

\* C18: a two-card listing, scraped by the first scrapePage call of a run on
\* the opened dataset: when card A's detail page matches no record and card B's
\* equals a stored record in the match fields with another status (not both
\* season-marked), the call returns 2 having added exactly one record, card
\* A's, numbered the highest stored suffix + 1; the stored record has card B's
\* status; the item callback was invoked exactly twice and the progress
\* callback at least three times.
C18_TwoCards ==
    \A p \in ReturnedPages : \A store \in InitialStores :
        LET E == Opened(store)
            A == p.details[1]
            B == p.details[2]
            hit == {k \in 1..Len(E) :
                       /\ SameFields(E[k], B)
                       /\ E[k].info6_status # B.info6_status
                       /\ ~SeasonsDiffer(E[k].info6_status, B.info6_status)}
        IN  (/\ FirstCallAlone(p)
             /\ \A k \in 1..Len(E) : ~SameFields(E[k], A)
             /\ hit # {})
            => /\ Len(newScrapedData) = 1
               /\ SameFields(newScrapedData[1], A)
               /\ newScrapedData[1].id
                      = generateId(A.info4_type, getHighestIdNumber(E, E) + 1)
               /\ Len(existingData) = Len(E)
               /\ \A k \in 1..Len(E) :
                     existingData[k]
                         = IF k \in hit THEN [E[k] EXCEPT !.info6_status = B.info6_status]
                                        ELSE E[k]
               /\ Count(p.trace, Items) = 2
               /\ Count(p.trace, {"item:new"}) = 1
               /\ Count(p.trace, ProgressEntries) >= 3

\* C18, its case: such a call has returned, card A's record is in the run's
\* new records and the stored record carries card B's status.
C18_Witness ==
    \E p \in ReturnedPages : \E store \in InitialStores :
        /\ FirstCallAlone(p)
        /\ \A k \in 1..Len(Opened(store)) : ~SameFields(Opened(store)[k], p.details[1])
        /\ SameFields(Opened(store)[1], p.details[2])
        /\ Opened(store)[1].info6_status # p.details[2].info6_status
        /\ existingData[1].info6_status = p.details[2].info6_status
        /\ Len(newScrapedData) = 1

\* a finished call of fetchPageContent, and the JSON body the relay answered with
\* (<<>>: the relay call was rejected or its body is no JSON)
Fetched == call.fn = "fetchPageContent" /\ call.done

RelayData ==
    IF call.outcome.response = <<>> THEN <<>> ELSE call.outcome.response[1].body

ReportsSuccess(data) == "success" \in DOMAIN data /\ data.success

\* C19: when the relay answers {success: true, html, finalUrl, status},
\* fetchPageContent returns the relay's html as the markup and the relay's
\* finalUrl as the resolved URL, and the links of the page are resolved against
\* the URL the relay landed on.
C19_ResolvedUrl ==
    (Fetched /\ RelayData # <<>> /\ ReportsSuccess(RelayData[1]))
        => /\ ~call.result.threw
           /\ call.result.html = <<RelayData[1].html>>
           /\ call.result.finalUrl = <<RelayData[1].finalUrl>>
           /\ BaseUrl(call.result, call.url) = RelayData[1].finalUrl

C21_NoStrayComma ==
    (call.fn = "normalizeLanguage" /\ call.done)
        => LET s == call.result
           IN  /\ s # <<>> => (s[1] # "," /\ s[Len(s)] # ",")
               /\ \A k \in 1..(Len(s) - 1) : ~(s[k] = "," /\ s[k + 1] = ",")

\* 10 to the power n
RECURSIVE Pow10(_)
Pow10(n) == IF n = 0 THEN 1 ELSE 10 * Pow10(n - 1)

\* the numbers written at the end of an id: the value of every suffix of the id
\* that is made of digits only (the longest one has the greatest value)
SuffixValues(id) ==
    {LET n == Len(id) - j + 1
         Value[m \in 0..n] ==
             IF m = 0 THEN 0 ELSE Value[m - 1] * 10 + DigitVal(id[j + m - 1])
     IN  Value[n] :
         j \in {i \in 1..Len(id) : \A m \in i..Len(id) : IsDigit(id[m])}}

\* C22: the next serial, getHighestIdNumber(existing, inRun) + 1, is 1 + the
\* greatest number written at the end of an id of a record of either array,
\* records without id or without such a number not counting, and 1 when no
\* record has one; ids movie5 and movie9 give 10.
C22_NextSerial ==
    (call.fn = "getHighestIdNumber" /\ call.done)
        => LET all == call.existingData \o call.scrapedData
               nums == UNION {SuffixValues(all[k].id) : k \in 1..Len(all)}
           IN  /\ nums = {} => call.result + 1 = 1
               /\ nums # {} => /\ call.result \in nums
                               /\ \A x \in nums : x <= call.result
               /\ (/\ call.existingData = <<[id |-> <<"m", "o", "v", "i", "e", "5">>]>>
                   /\ call.scrapedData = <<[id |-> <<"m", "o", "v", "i", "e", "9">>]>>)
                   => call.result + 1 = 10

\* C22, its case: the greatest number (10) is in the existing array and before
\* a smaller one of the in-run array, next to a record without id.
C22_Witness ==
    /\ call.fn = "getHighestIdNumber" /\ call.done
    /\ call.existingData = <<[id |-> <<"t", "v", "1", "0">>], [id |-> <<>>]>>
    /\ call.scrapedData = <<[id |-> <<"m", "o", "v", "i", "e", "9">>]>>
    /\ call.result + 1 = 11

\* C23: a card whose detail page was fetched and extracted has the item
\* callback invoked exactly once in the step that handles it: as new with the
\* extracted record, which the handler adds to the run's records, or as
\* duplicate/updated with no record (nothing is added) and the stored record
\* that matched; a card whose fetch failed, a card without link, and every other
\* step of the page invoke no item callback.
C23_ItemCallback ==
    [][\A r \in Slots :
          LET l == loops[r]
              calls == Count(Grown(r), Items)
          IN  /\ \A d \in DetailPages :
                    DetailOk(r, d)
                        => LET movieData == scrapeMovieDetails(d, l.serial, nextOid)
                               found == findExistingMovie(movieData, l.lExisting, Scraped(l))
                               allData == l.lExisting \o Scraped(l)
                           IN  /\ calls = 1
                               /\ Count(Grown(r), {"item:new"}) = 1
                                     <=> /\ found = 0
                                         /\ newScrapedData' = Append(newScrapedData, movieData)
                                         /\ scrapedData' = Append(scrapedData, movieData)
                               /\ Count(Grown(r), {"item:duplicate", "item:updated"}) = 1
                                     <=> /\ found # 0
                                         /\ Len(newScrapedData') = Len(newScrapedData)
                                         /\ Len(scrapedData') = Len(scrapedData)
                                         /\ Count(Grown(r), {"item:updated"}) = 1
                                               <=> allData[found].info6_status
                                                       # movieData.info6_status
              /\ (l.pc \in InPage /\ ~(\E d \in DetailPages : DetailOk(r, d)))
                    => calls = 0]_vars

\* C23, its case: on one page a card whose fetch failed and an extracted card
\* had their turn, and the item callback was invoked once, for the second.
C23_Witness ==
    \E p \in AllPages :
        /\ Count(p.trace, {"card"}) >= 2
        /\ Count(p.trace, {"error:card"}) = 1
        /\ Count(p.trace, Items) = 1
        /\ Len(p.details) = 1
        /\ Last(p.trace) \in Items \cup {"success:scraped"}

ErrorEntries == {"error:card", "error:page"}

WarningEntries == {"warning:nocards", "warning:duplicate", "warning:stop"}

\* the no-cards warning is in the trace of returned calls on empty listings
\* only, and no call is pending on a parsed listing without cards
WarnedOnlyWhenEmpty ==
    \A p \in AllPages :
        /\ Count(p.trace, {"warning:nocards"}) > 0 => (p.n = 0 /\ p \in ReturnedPages)
        /\ (p \in PendingPages /\ p.pc # "listing") => p.n > 0

\* C24: a listing that was fetched and holds no card makes scrapePage emit the
\* no-cards warning and return at once: after "Scraping page" and the listing
\* fetch it emits the warning and "Found 0 cards", issues no detail fetch,
\* invokes no item callback and emits no error event. The call is never left
\* pending on such a listing, and the warning is emitted for no other listing.
C24_EmptyListing ==
    [][/\ \A r \in Slots : \A href \in BOOLEAN :
              ListingOk(r, 0, href)
                  => /\ ret' # <<>> /\ ret'[1].slot = r
                     /\ LET p == ret'[1].page
                        IN  /\ p.n = 0
                            /\ p.trace = <<"info:scraping", "fetch:listing",
                                           "warning:nocards", "info:found">>
                            /\ Count(p.trace, WarningEntries) = 1
                            /\ Count(p.trace, {"fetch:detail"}) = 0
                            /\ Count(p.trace, Items) = 0
                            /\ Count(p.trace, ErrorEntries) = 0
                            /\ p.details = <<>>
       /\ WarnedOnlyWhenEmpty /\ WarnedOnlyWhenEmpty']_vars

\* C24, its case: a scrapePage call has returned from a listing without cards.
C24_Witness ==
    \E p \in ReturnedPages :
        /\ p.n = 0
        /\ Last(p.trace) = "info:found"
        /\ Count(p.trace, {"warning:nocards"}) = 1

\* the records of an array without the identities of the objects
Content(arr) == [k \in 1..Len(arr) |-> [arr[k] EXCEPT !.oid = 0]]

\* C25: when the import of the JSON URL answers an array, the array replaces
\* existingData and is the working dataset (scrapedData) before the first page
\* of the run is fetched, and the first scrapePage call is made on it; when the
\* import fails (HTTP error, no JSON, no array), existingData and scrapedData
\* keep the arrays they held and the run goes on to its first page (unless it
\* was stopped meanwhile).
C25_Seed ==
    [][\A r \in Slots :
          LET l == loops[r]
              l2 == loops'[r]
              Proceeds == /\ l.visited = 0
                          /\ IF shouldStop THEN l2.pc = "idle"
                             ELSE /\ l2.pc = "listing" /\ l2.visited = 1
                                  /\ l2.trace = <<"info:scraping", "fetch:listing">>
                                  /\ l2.lExisting = existingData'
                                  /\ l2.scrapedLive /\ l2.newLive
          IN  /\ \A json \in JsonArrays :
                    ImportLoaded(r, json)
                        => /\ Content(existingData') = Content(json)
                           /\ scrapedData' = existingData'
                           /\ Proceeds
              /\ ImportFailed(r)
                    => /\ existingData' = existingData
                       /\ scrapedData' = scrapedData
                       /\ Proceeds]_vars

\* C25, its case: the first page of a run is being fetched on an imported
\* array of one record, which replaced the stored record the app had loaded.
C25_Witness ==
    \E p \in PendingPages :
        /\ p.jsonUrl /\ p.pc = "listing" /\ p.visited = 1
        /\ Len(existingData) = 1
        /\ \A store \in InitialStores : Content(existingData) # Content(store)
        /\ p.lExisting = existingData
        /\ scrapedData = existingData

\* a finished call of the worker
Relayed == call.fn = "worker.fetch" /\ call.done

\* the url a request names: in its query (GET ?url=) or in its JSON body (POST)
NamedUrl(request) ==
    IF request.query # <<>> THEN request.query
    ELSE IF request.method = "POST" /\ request.body # <<>>
         THEN Property(request.body[1], "url")
         ELSE <<>>

\* C26: for every request the relay accepts, a GET with ?url= or a POST with
\* a {url} body, the request the relay sends to the target is an HTTP GET of
\* that url with the fixed mobile User-Agent, whatever the method of the
\* request it received.
C26_OutboundGet ==
    (Relayed /\ call.request.method \in {"GET", "POST"} /\ NamedUrl(call.request) # <<>>)
        => /\ call.result.outbound # <<>>
           /\ call.result.outbound[1].url = NamedUrl(call.request)[1]
           /\ call.result.outbound[1].userAgent = MobileUserAgent
           /\ call.result.outbound[1].method = "GET"

\* a step in which slot r's scrapePage call takes a card to the body of its card
\* loop (the listing has just been parsed, or the timer after a card has
\* fired), `if (href)` being linked for that card
CardHandled(r, linked) ==
    /\ \/ \E n \in 1..MaxCards : ListingOk(r, n, linked)
       \/ DelayDone(r, linked)
    /\ Count(Grown(r), {"card"}) = 1

CardsAfterStop(p) ==
    LET at == p.stopAt[1]
        first == IF at.pc = "listing" THEN 0 ELSE at.i + 1
    IN  {k \in first..(Count(p.trace, {"card"}) - 1) : TRUE}

\* C28: at most one run is in its page loop at any time, and a stop holds: a
\* scrapePage call during which stopScraping ran fetches no detail page and
\* invokes no item callback for any card after the one that was at hand, also
\* when the FAB is tapped again before the call reaches its next stop check.
C28_StopHolds ==
    /\ Cardinality({r \in Slots : loops[r].pc \in InPage}) <= 1
    /\ \A p \in AllPages :
          p.stopAt # <<>>
              => \A k \in CardsAfterStop(p) :
                    /\ Count(CardSegment(p.trace, k), {"fetch:detail"}) = 0
                    /\ Count(CardSegment(p.trace, k), Items) = 0

\* the activation of slot r ends in this step: finishScraping runs
Finishes(r) == loops[r].pc # "idle" /\ loops'[r].pc = "idle"

\* the records the activation of slot r has made, as it ends
MadeBy(r) ==
    IF ret' # <<>> /\ ret'[1].slot = r THEN ret'[1].page.made ELSE loops[r].made

\* C29: with autoSave on, the end of a run, completed or stopped, writes to the
\* store exactly the records the run made: the store becomes what it was with
\* those records put, which leaves it as it was when the run made none, and
\* leaves the stored version of a record whose status the run updated in place.
\* At any other time the store is not written.
C29_SavedSet ==
    [][/\ \A r \in Slots :
              Finishes(r) => db' = saveMovies(db, MadeBy(r))
       /\ (\A r \in Slots : ~Finishes(r)) => db' = db]_vars

\* C30: the worker answers every OPTIONS request with the preflight response
\* (the Access-Control-Allow-Origin, -Methods and -Headers headers), with or
\* without a url parameter, and answers 400 'URL is required' only to requests
\* of another method that name no url.
C30_Preflight ==
    Relayed =>
        /\ call.request.method = "OPTIONS"
              => /\ call.result.response.status = 200
                 /\ {"Access-Control-Allow-Origin", "Access-Control-Allow-Methods",
                     "Access-Control-Allow-Headers"} \subseteq call.result.response.headers
                 /\ call.result.outbound = <<>>
        /\ call.result.response.status = 400
              => /\ call.request.method # "OPTIONS"
                 /\ NamedUrl(call.request) = <<>>
                 /\ call.result.response.body = <<RelayFailure(UrlRequiredText)>>

====
